---- MODULE Spec2Model ----
(***************************************************************************)
(* Macro calculator (Vue single-file component, <script setup>).           *)
(*                                                                         *)
(* The component keeps a handful of reactive inputs (refs) and a set of    *)
(* computed values derived from them.  The refs are the variables below;   *)
(* every computed value is a variable too, re-evaluated by the reactive    *)
(* system after each input change, so that a stale value would be visible. *)
(*                                                                         *)
(* Units.  JavaScript numbers are modelled by scaled integers:             *)
(*   weight            tenths of a kilogram      (853 is 85.3 kg)          *)
(*   height            centimetres                                         *)
(*   age               years                                               *)
(*   proteinPerKg,                                                         *)
(*   fatPerKg,                                                             *)
(*   carbsPerKg        tenths of a gram per kg   (18 is 1.8 g/kg)          *)
(*   multipliers       tenths                    (14 is 1.4)               *)
(*   unrounded RMR     1/10000 kcal              (Scale)                   *)
(* The scaled integers are the exact decimal values.  Math.round is applied *)
(* to the double the expression evaluates to: it is round-half-up of the    *)
(* exact value wherever that is not a half, and where it is a half the     *)
(* side of the half on which the double lies is computed (see Double-      *)
(* precision arithmetic below).  The input sets hold such values.          *)
(***************************************************************************)
EXTENDS Integers, Sequences, FiniteSets, TLC

VARIABLES
    height, weight, age, gender, activityLevel,   \* profile inputs (refs)
    activityMultipliers,                          \* plain object built at setup
    proteinPerKg, fatPerKg, carbCycleLevel,       \* macro inputs (refs)
    weeklyPlan, selectedDay,                      \* weekly planner (refs)
    rmr, tdee, bodyCompositionTdee,               \* computed
    carbsPerKg, macros, weeklyDeficit,            \* computed
    lastOp, changes                               \* history: last handler run, number of input events

inputs == <<height, weight, age, gender, activityLevel, proteinPerKg, fatPerKg,
            carbCycleLevel, weeklyPlan, selectedDay>>
computeds == <<rmr, tdee, bodyCompositionTdee, carbsPerKg, macros, weeklyDeficit>>
vars == <<inputs, activityMultipliers, computeds, lastOp, changes>>

----------------------------------------------------------------------------
(* Bounds of the exploration *)

\* longest sequence of input events explored in Spec
MaxChanges == 2

\* profiles and macro settings explored in SpecRmr and SpecMacros
MinWeight == 700
MaxWeight == 710
MinHeight == 176
MaxHeight == 184
MinAge == 36
MaxAge == 40

\* the protein and fat sliders: min, max (step 0.1)
ProteinMin == 13
ProteinMax == 33
FatMin == 8
FatMax == 12

----------------------------------------------------------------------------
(* Types *)

Genders == {"male", "female"}
ActivityLevels == {"bed-rest", "very-sedentary", "sedentary", "light",
                   "light-moderate", "moderate", "heavy", "very-heavy"}
ActivityTypes == {"rest", "light", "moderate", "hard"}
DayIndex == 0..6

----------------------------------------------------------------------------
(* Arithmetic *)

Scale == 10000

\* variant: Math.floor in place of Math.round
RoundDown(n, d) ==
    IF d > 0 THEN n \div d ELSE (0 - n) \div (0 - d)

\* Math.round(n / d) for an exact quotient: floor(n/d + 1/2); d # 0
Round(n, d) ==
    IF d > 0 THEN (2 * n + d) \div (2 * d)
             ELSE (2 * (0 - n) + (0 - d)) \div (2 * (0 - d))

Abs(n) == IF n < 0 THEN 0 - n ELSE n

----------------------------------------------------------------------------
(* Double-precision arithmetic.  A decimal input such as 85.3 or a literal *)
(* such as 2.3 is the double nearest to it, and every product or quotient  *)
(* is rounded to a double before Math.round sees it.  The rounding errors  *)
(* are far smaller than the step of the exact decimal values, so they show *)
(* only where the exact value is a half: there the double may lie below,   *)
(* at or above the half, which decides what Math.round returns.            *)

Pow2(k) == 2 ^ k

\* 2^k mod m
Pow2Mod(k, m) == (2 ^ k) % m

\* the binary exponents met: 2^-8 <= n / d < 2^21
MinExponent == 8
MaxExponent == 20

\* floor(log2(n / d)), the binary exponent of n / d; n >= 1, d >= 1
Exponent(n, d) ==
    IF n >= d
    THEN CHOOSE e \in 0..MaxExponent : d * 2 ^ e <= n /\ n < d * 2 ^ (e + 1)
    ELSE 0 - (CHOOSE e \in 1..MinExponent : d <= n * 2 ^ e /\ n * 2 ^ (e - 1) < d)

\* the nearer of the two neighbours of a value r / m of a last bit above a
\* double: the error made, in m-ths of a last bit
Nearer(r, m) == IF 2 * r <= m THEN 0 - r ELSE m - r

\* the error of the double nearest to n / 10, in fifths of its last bit:
\* (n / 10) / ulp = n * 2^(51 - e) / 5, so the part cut off is
\* ((n * 2^(51 - e)) mod 5) / 5, rounded to the nearer side
TenthError(n) == Nearer(((n % 5) * Pow2Mod((51 - Exponent(n, 10)) % 4, 5)) % 5, 5)

\* exponents below are offset by this much to keep every power integral
ExponentOffset == 8

\* -1, 0 or 1 as an error of first, and a far smaller one of the sign of
\* second, leave the rounded product below, at or above the half: the product
\* moves when the error exceeds half a last bit, up above or down below
Moved(first, second, up, down) ==
    IF first > up \/ (first = up /\ second > 0) THEN 1
    ELSE IF first < 0 - down \/ (first = 0 - down /\ second < 0) THEN 0 - 1
    ELSE 0

\* the factors a / 10 and b / 10 with errors sa and sb (fifths of a last bit)
\* and exponents ea and eb, the half a * b / 100 with exponent eT: the exact
\* product of the two doubles is off by sb a 2^eb + sa b 2^ea (in units of
\* 2^-52 / 50) and by the product of the two errors
ProductMoved(a, b, sa, sb, ea, eb, eT) ==
    Moved(sb * a * Pow2(eb + ExponentOffset) + sa * b * Pow2(ea + ExponentOffset),
          sa * sb,
          25 * Pow2(eT + ExponentOffset),
          IF a * b = 50 THEN 25 * Pow2(eT + ExponentOffset - 1)
          ELSE 25 * Pow2(eT + ExponentOffset))

\* a, b >= 1 with a * b / 100 a half: -1, 0 or 1 as the double product
\* (a / 10) * (b / 10) lies below, at or above it
ProductSide(a, b) ==
    ProductMoved(a, b, TenthError(a), TenthError(b), Exponent(a, 10),
                 Exponent(b, 10), Exponent(a * b, 100))

\* Math.round of a double of magnitude floor + 1/2 moved to side, positive or
\* negative: the half itself goes up
RoundMoved(positive, floor, side) ==
    IF positive THEN (IF side < 0 THEN floor ELSE floor + 1)
    ELSE (IF side > 0 THEN 0 - floor - 1 ELSE 0 - floor)

\* Math.round(x * y) for the doubles x = a / 10 and y = b / 10
RoundProduct(a, b) ==
    IF (Abs(a) * Abs(b)) % 100 # 50 THEN Round(a * b, 100)
    ELSE RoundMoved((a < 0) = (b < 0), (Abs(a) * Abs(b)) \div 100,
                    ProductSide(Abs(a), Abs(b)))

\* the quotient m / 200 is off by s 25ths of its last bit, and the factor 100
\* makes that 8 s / 2^d half last bits of the product, d the difference of
\* the exponents of m / 2 and m / 200
QuotientMoved(m, s, d) ==
    IF 8 * s > Pow2(d) THEN 1
    ELSE IF 8 * s < 0 - (IF m = 1 THEN Pow2(d - 1) ELSE Pow2(d)) THEN 0 - 1
    ELSE 0

\* m odd: -1, 0 or 1 as the double (m / 200) * 100 lies below, at or above
\* m / 2
QuotientSide(m) ==
    QuotientMoved(m,
        Nearer(((m % 25) * Pow2Mod((49 - Exponent(m, 200)) % 20, 25)) % 25, 25),
        Exponent(m, 2) - Exponent(m, 200))

\* Math.round((c / t) * 100) for integers c and t # 0
RoundPercent(c, t) ==
    IF (200 * Abs(c)) % (2 * Abs(t)) # Abs(t) THEN Round(100 * c, t)
    ELSE RoundMoved((c < 0) = (t < 0), (100 * Abs(c)) \div Abs(t),
                    QuotientSide((200 * Abs(c)) \div Abs(t)))

----------------------------------------------------------------------------
(* Doubles in full.  The Harris-Benedict sum has four rounded coefficients *)
(* and six rounded operations, so its double is computed bit by bit: a     *)
(* double is sign * m * 2^e with m a natural number of up to 53 bits, held *)
(* as a sequence of 15-bit limbs, least significant first, <<>> for zero.  *)

Limb == 32768
LimbBits == 15
MantissaBits == 53

First(a) == IF a = <<>> THEN 0 ELSE Head(a)
Rest(a) == IF a = <<>> THEN <<>> ELSE Tail(a)

\* drop the leading zero limbs
RECURSIVE BNorm(_)
BNorm(a) ==
    IF a = <<>> THEN <<>>
    ELSE IF a[Len(a)] = 0 THEN BNorm(SubSeq(a, 1, Len(a) - 1))
    ELSE a

RECURSIVE BFromInt(_)
BFromInt(n) == IF n = 0 THEN <<>> ELSE <<n % Limb>> \o BFromInt(n \div Limb)

\* a + b + c, c a carry
RECURSIVE BAdd(_, _, _)
BAdd(a, b, c) ==
    IF a = <<>> /\ b = <<>> THEN BFromInt(c)
    ELSE LET x == First(a) + First(b) + c
         IN  <<x % Limb>> \o BAdd(Rest(a), Rest(b), x \div Limb)

\* a - b - c for a >= b + c, c a borrow; limbs not normalised
RECURSIVE BSubLimbs(_, _, _)
BSubLimbs(a, b, c) ==
    IF a = <<>> THEN <<>>
    ELSE LET x == First(a) - First(b) - c
         IN  IF x < 0 THEN <<x + Limb>> \o BSubLimbs(Rest(a), Rest(b), 1)
                      ELSE <<x>> \o BSubLimbs(Rest(a), Rest(b), 0)

BSub(a, b) == BNorm(BSubLimbs(a, b, 0))

\* -1, 0, 1 as a < b, a = b, a > b; both normalised
RECURSIVE BCmp(_, _)
BCmp(a, b) ==
    IF Len(a) # Len(b) THEN (IF Len(a) < Len(b) THEN 0 - 1 ELSE 1)
    ELSE IF a = <<>> THEN 0
    ELSE IF a[Len(a)] # b[Len(b)] THEN (IF a[Len(a)] < b[Len(b)] THEN 0 - 1 ELSE 1)
    ELSE BCmp(SubSeq(a, 1, Len(a) - 1), SubSeq(b, 1, Len(b) - 1))

\* a * k + c for 0 <= k <= Limb; limbs not normalised
RECURSIVE BMulSmall(_, _, _)
BMulSmall(a, k, c) ==
    IF a = <<>> THEN BFromInt(c)
    ELSE LET x == Head(a) * k + c
         IN  <<x % Limb>> \o BMulSmall(Tail(a), k, x \div Limb)

RECURSIVE BMulLimbs(_, _)
BMulLimbs(a, b) ==
    IF b = <<>> THEN <<>>
    ELSE BAdd(BMulSmall(a, Head(b), 0), <<0>> \o BMulLimbs(a, Tail(b)), 0)

BMul(a, b) == BNorm(BMulLimbs(a, b))

\* quotient (not normalised) and remainder of a by k, 1 <= k <= Limb
RECURSIVE BDivSmall(_, _)
BDivSmall(a, k) ==
    IF a = <<>> THEN [q |-> <<>>, r |-> 0]
    ELSE LET hi == BDivSmall(Tail(a), k)
             x  == hi.r * Limb + Head(a)
         IN  [q |-> <<x \div k>> \o hi.q, r |-> x % k]

\* a * 2^s
RECURSIVE BShl(_, _)
BShl(a, s) ==
    IF a = <<>> THEN <<>>
    ELSE IF s >= LimbBits THEN <<0>> \o BShl(a, s - LimbBits)
    ELSE BNorm(BMulSmall(a, Pow2(s), 0))

\* floor(a / 2^s), and whether any bit was shifted out
RECURSIVE BShr(_, _)
BShr(a, s) ==
    IF a = <<>> THEN [q |-> <<>>, sticky |-> FALSE]
    ELSE IF s >= LimbBits
         THEN LET r == BShr(Tail(a), s - LimbBits)
              IN  [q |-> r.q, sticky |-> r.sticky \/ Head(a) # 0]
         ELSE LET d == BDivSmall(a, Pow2(s))
              IN  [q |-> BNorm(d.q), sticky |-> d.r # 0]

RECURSIVE SmallBits(_)
SmallBits(n) == IF n = 0 THEN 0 ELSE 1 + SmallBits(n \div 2)

\* the number of significant bits of a normalised a
BBits(a) == IF a = <<>> THEN 0 ELSE LimbBits * (Len(a) - 1) + SmallBits(a[Len(a)])

BOdd(a) == a # <<>> /\ a[1] % 2 = 1

DZero == [neg |-> FALSE, m |-> <<>>, e |-> 0]

\* 2^52 and 2^53 in limbs
TwoTo52 == <<0, 0, 0, 128>>
TwoTo53 == <<0, 0, 0, 256>>

\* a mantissa that the rounding carried up to 2^53 is 2^52 one exponent higher
Renormalised(neg, e, q) ==
    IF q = TwoTo53 THEN [neg |-> neg, m |-> TwoTo52, e |-> e + 1]
    ELSE [neg |-> neg, m |-> q, e |-> e]

\* t.q holds the 53 leading bits and the half bit below them, t.sticky whether
\* any lower bit is set: round to nearest, a tie to the even mantissa
Nearest(neg, e, t) ==
    Renormalised(neg, e,
        BNorm(BDivSmall(IF BOdd(t.q) /\ (t.sticky \/ t.q[1] % 4 = 3)
                        THEN BAdd(t.q, <<1>>, 0) ELSE t.q, 2).q))

\* x, of bits significant bits, as a double
Rounded(x, bits) ==
    IF bits = 0 THEN DZero
    ELSE IF bits <= MantissaBits
    THEN [neg |-> x.neg, m |-> BShl(x.m, MantissaBits - bits),
          e |-> x.e - (MantissaBits - bits)]
    ELSE Nearest(x.neg, x.e + bits - MantissaBits,
                 BShr(x.m, bits - MantissaBits - 1))

\* round-to-nearest, ties-to-even, to 53 significant bits (the exponent
\* range of a double is never left here)
RoundToDouble(x) == Rounded(x, BBits(x.m))

\* the quotient q and remainder r of |n| * 2^70 by d, as the number
\* (2 q + [r # 0]) * 2^-71: n / d to 70 binary places and a sticky bit
Quotient(neg, dv) ==
    [neg |-> neg,
     m   |-> BAdd(BMulSmall(BNorm(dv.q), 2, 0), IF dv.r # 0 THEN <<1>> ELSE <<>>, 0),
     e   |-> 0 - 71]

\* the double a decimal literal or input n / d denotes, 1 <= d <= Limb
Dec(n, d) == RoundToDouble(Quotient(n < 0, BDivSmall(BShl(BFromInt(Abs(n)), 70), d)))

\* the magnitudes a and b, of opposite signs, added
Difference(negA, a, b, e) ==
    IF BCmp(a, b) >= 0 THEN [neg |-> negA, m |-> BSub(a, b), e |-> e]
    ELSE [neg |-> ~negA, m |-> BSub(b, a), e |-> e]

\* x + y at the common exponent e, not rounded
Aligned(x, y, e) ==
    IF x.neg = y.neg
    THEN [neg |-> x.neg, m |-> BAdd(BShl(x.m, x.e - e), BShl(y.m, y.e - e), 0), e |-> e]
    ELSE Difference(x.neg, BShl(x.m, x.e - e), BShl(y.m, y.e - e), e)

\* x + y, not rounded
ExactSum(x, y) == Aligned(x, y, IF x.e < y.e THEN x.e ELSE y.e)

DNeg(x) == [neg |-> ~x.neg, m |-> x.m, e |-> x.e]
DAdd(x, y) == RoundToDouble(ExactSum(x, y))
DMul(x, y) == RoundToDouble([neg |-> x.neg # y.neg, m |-> BMul(x.m, y.m), e |-> x.e + y.e])
DHalf(x) == [neg |-> x.neg, m |-> x.m, e |-> x.e - 1]

\* expressions of the source, as trees
Lit(n, d) == [op |-> "literal", n |-> n, d |-> d]
Times(l, r) == [op |-> "*", l |-> l, r |-> r]
Plus(l, r) == [op |-> "+", l |-> l, r |-> r]
Minus(l, r) == [op |-> "-", l |-> l, r |-> r]
Halved(l) == [op |-> "/2", l |-> l]

\* the double an expression evaluates to, every operation rounded
RECURSIVE Eval(_)
Eval(x) ==
    IF x.op = "literal" THEN Dec(x.n, x.d)
    ELSE IF x.op = "*" THEN DMul(Eval(x.l), Eval(x.r))
    ELSE IF x.op = "/2" THEN DHalf(Eval(x.l))
    ELSE DAdd(Eval(x.l), IF x.op = "-" THEN DNeg(Eval(x.r)) ELSE Eval(x.r))

\* -1, 0 or 1 as the double x lies below, at or above twice / 2
Side(x, twice) ==
    LET d == ExactSum(x, [neg |-> twice > 0, m |-> BFromInt(Abs(twice)), e |-> 0 - 1])
    IN  IF d.m = <<>> THEN 0 ELSE IF d.neg THEN 0 - 1 ELSE 1

\* n / d is an integer and a half
IsHalf(n, d) == (2 * n) % (2 * d) = d

\* Math.round of a double whose exact decimal value n / d is a half and
\* which lies at side of it: the half itself goes up
RoundHalf(n, d, side) == IF side < 0 THEN n \div d ELSE n \div d + 1

----------------------------------------------------------------------------
(* Setup-time constants *)

\* activityMultipliers, as the object literal evaluates for a given gender.value
ActivityMultipliers(g) ==
    [l \in ActivityLevels |->
        CASE l = "bed-rest"       -> 12
          [] l = "very-sedentary" -> 13
          [] l = "sedentary"      -> 14
          [] l = "light"          -> 15
          [] l = "light-moderate" -> IF g = "male" THEN 17 ELSE 16
          [] l = "moderate"       -> IF g = "male" THEN 18 ELSE 17
          [] l = "heavy"          -> IF g = "male" THEN 21 ELSE 18
          [] l = "very-heavy"     -> IF g = "male" THEN 23 ELSE 20]

\* variant: the optimal values run the other way, hard lowest
carbRangesInverted ==
    [t \in ActivityTypes |->
        CASE t = "rest"     -> [min |-> 0,  max |-> 22, optimal |-> 44]
          [] t = "light"    -> [min |-> 11, max |-> 33, optimal |-> 33]
          [] t = "moderate" -> [min |-> 22, max |-> 44, optimal |-> 22]
          [] t = "hard"     -> [min |-> 33, max |-> 55, optimal |-> 11]]

carbRanges ==
    [t \in ActivityTypes |->
        CASE t = "rest"     -> [min |-> 0,  max |-> 22, optimal |-> 11]
          [] t = "light"    -> [min |-> 11, max |-> 33, optimal |-> 22]
          [] t = "moderate" -> [min |-> 22, max |-> 44, optimal |-> 33]
          [] t = "hard"     -> [min |-> 33, max |-> 55, optimal |-> 44]]

DayNames == [i \in DayIndex |->
    CASE i = 0 -> "Monday"   [] i = 1 -> "Tuesday" [] i = 2 -> "Wednesday"
      [] i = 3 -> "Thursday" [] i = 4 -> "Friday"  [] i = 5 -> "Saturday"
      [] i = 6 -> "Sunday"]

\* a weeklyPlan value: the seven named entries with the given types
Plan(types) == [i \in DayIndex |-> [day |-> DayNames[i], type |-> types[i]]]

\* the initial value of the weeklyPlan ref
InitialWeeklyPlan ==
    Plan([i \in DayIndex |-> IF i = 6 THEN "rest" ELSE "moderate"])

----------------------------------------------------------------------------
(* Computed values, as functions of the refs they read *)

\* const mifflin, in 1/Scale kcal
MifflinScaled(h, w, a, g) ==
    10000 * w + 62500 * h - 50000 * a
        + (IF g = "male" THEN 50000 ELSE 0 - 1610000)

\* variant: the female branch takes the male age coefficient 5.677
HarrisScaledMaleAge(h, w, a, g) ==
    IF g = "male"
    THEN 883620 + 13397 * w + 47990 * h - 56770 * a
    ELSE 4475930 + 9247 * w + 30980 * h - 56770 * a

\* const harris, in 1/Scale kcal
HarrisScaled(h, w, a, g) ==
    IF g = "male"
    THEN 883620 + 13397 * w + 47990 * h - 56770 * a
    ELSE 4475930 + 9247 * w + 30980 * h - 43300 * a

\* variant: the average is derived from the two rounded values
RmrAverageOfRounded(h, w, a, g) ==
    LET mifflin == Round(MifflinScaled(h, w, a, g), Scale)
        harris  == Round(HarrisScaled(h, w, a, g), Scale)
    IN  [mifflin |-> mifflin,
         harris  |-> harris,
         average |-> Round(mifflin + harris, 2)]

\* const mifflin, as written
MifflinExpression(h, w, a, g) ==
    Plus(Minus(Plus(Times(Lit(10, 1), Lit(w, 10)), Times(Lit(625, 100), Lit(h, 1))),
               Times(Lit(5, 1), Lit(a, 1))),
         IF g = "male" THEN Lit(5, 1) ELSE Lit(0 - 161, 1))

\* const harris, as written
HarrisExpression(h, w, a, g) ==
    IF g = "male"
    THEN Minus(Plus(Plus(Lit(88362, 1000), Times(Lit(13397, 1000), Lit(w, 10))),
                    Times(Lit(4799, 1000), Lit(h, 1))),
               Times(Lit(5677, 1000), Lit(a, 1)))
    ELSE Minus(Plus(Plus(Lit(447593, 1000), Times(Lit(9247, 1000), Lit(w, 10))),
                    Times(Lit(3098, 1000), Lit(h, 1))),
               Times(Lit(4330, 1000), Lit(a, 1)))

\* const average = (mifflin + harris) / 2
AverageExpression(h, w, a, g) ==
    Halved(Plus(MifflinExpression(h, w, a, g), HarrisExpression(h, w, a, g)))

\* Math.round of the double of the expression x whose exact decimal value is
\* n / d: the two can round differently only where n / d is a half
RoundOf(x, n, d) ==
    IF IsHalf(n, d) THEN RoundHalf(n, d, Side(Eval(x), (2 * n) \div d))
    ELSE Round(n, d)

\* rmr = computed(...): the three values are rounded separately.  The
\* Mifflin-St Jeor double is the exact value: 10 * (w / 10) gives back w
\* (10 = 2^3 + 2^1), and every other term and partial sum is a multiple of
\* 1/4 far below 2^53.
Rmr(h, w, a, g) ==
    LET mifflin == MifflinScaled(h, w, a, g)
        harris  == HarrisScaled(h, w, a, g)
    IN  [mifflin |-> Round(mifflin, Scale),
         harris  |-> RoundOf(HarrisExpression(h, w, a, g), harris, Scale),
         average |-> RoundOf(AverageExpression(h, w, a, g), mifflin + harris,
                             2 * Scale)]

\* variant: the product is truncated instead of rounded
TdeeFloor(r, table, level) ==
    (r.average * table[level]) \div 10

\* tdee = computed(...): bmr is rmr.value.average, the table is the setup-time object
Tdee(r, table, level) ==
    LET bmr        == r.average
        multiplier == table[level]
    IN  RoundProduct(10 * bmr, multiplier)

\* variant: a smaller surplus for weight gain
BodyCompositionTdeeLeanGain(t) ==
    [weightLoss |-> t - 500, maintenance |-> t, weightGain |-> t + 300]

BodyCompositionTdee(t) ==
    [weightLoss |-> t - 500, maintenance |-> t, weightGain |-> t + 500]

\* variant: the lower end of the range
CarbsPerKgMin(level) == carbRanges[level].min

\* variant: the upper end of the range
CarbsPerKgMax(level) == carbRanges[level].max

CarbsPerKg(level) == carbRanges[level].optimal

\* A JavaScript number that need not be an integer: a tagged pair
Num(n) == <<"number", n>>
NaN == <<"NaN", 0>>
PosInfinity == <<"Infinity", 1>>
NegInfinity == <<"Infinity", 0 - 1>>
IsNum(x) == x[1] = "number"
Val(x) == x[2]

\* variant: a zero total is guarded and reported as 0 %
PercentageGuarded(calories, totalCalories) ==
    IF totalCalories = 0 THEN Num(0)
    ELSE Num(RoundPercent(calories, totalCalories))

\* variant: the share is taken of a 2000 kcal reference day
PercentageOfReference(calories, totalCalories) ==
    IF totalCalories = 0
    THEN IF calories = 0 THEN NaN
         ELSE IF calories > 0 THEN PosInfinity ELSE NegInfinity
    ELSE Num(Round(100 * calories, 2000))

\* variant: the share is truncated instead of rounded
PercentageTruncated(calories, totalCalories) ==
    IF totalCalories = 0
    THEN IF calories = 0 THEN NaN
         ELSE IF calories > 0 THEN PosInfinity ELSE NegInfinity
    ELSE Num((100 * calories) \div totalCalories)

\* Math.round((calories / totalCalories) * 100)
Percentage(calories, totalCalories) ==
    IF totalCalories = 0
    THEN IF calories = 0 THEN NaN
         ELSE IF calories > 0 THEN PosInfinity ELSE NegInfinity
    ELSE Num(RoundPercent(calories, totalCalories))

\* the carbohydrate slider of the earlier component: min="3" max="5"
CarbsSliderMin == 30
CarbsSliderMax == 50

\* the weight input carries min="30" max="350"
WeightMin == 300
WeightMax == 3500

\* variant: the weight is clamped to the range of the input widget
GramsClamped(w, perKg) ==
    RoundProduct(IF w < WeightMin THEN WeightMin
                 ELSE IF w > WeightMax THEN WeightMax ELSE w, perKg)

\* variant: the product is truncated instead of rounded
GramsFloor(w, perKg) == (w * perKg) \div 100

\* Math.round(weight.value * perKg): both in tenths, both doubles
Grams(w, perKg) == RoundProduct(w, perKg)

\* variant: the protein range shown is 1.6-2.2 g/kg
MacrosNarrowProteinRange(w, pPerKg, fPerKg, cPerKg, level) ==
    LET proteinGrams    == Grams(w, pPerKg)
        fatGrams        == Grams(w, fPerKg)
        carbsGrams      == Grams(w, cPerKg)
        proteinCalories == proteinGrams * 4
        fatCalories     == fatGrams * 9
        carbsCalories   == carbsGrams * 4
        totalCalories   == proteinCalories + fatCalories + carbsCalories
    IN  [protein |-> [grams      |-> proteinGrams,
                      calories   |-> proteinCalories,
                      percentage |-> Percentage(proteinCalories, totalCalories),
                      min        |-> Grams(w, 16),
                      max        |-> Grams(w, 22)],
         fat     |-> [grams      |-> fatGrams,
                      calories   |-> fatCalories,
                      percentage |-> Percentage(fatCalories, totalCalories)],
         carbs   |-> [grams      |-> carbsGrams,
                      calories   |-> carbsCalories,
                      percentage |-> Percentage(carbsCalories, totalCalories),
                      min        |-> Grams(w, carbRanges[level].min),
                      max        |-> Grams(w, carbRanges[level].max)],
         totalCalories |-> totalCalories]

Macros(w, pPerKg, fPerKg, cPerKg, level) ==
    LET proteinGrams    == Grams(w, pPerKg)
        fatGrams        == Grams(w, fPerKg)
        carbsGrams      == Grams(w, cPerKg)
        proteinCalories == proteinGrams * 4
        fatCalories     == fatGrams * 9
        carbsCalories   == carbsGrams * 4
        totalCalories   == proteinCalories + fatCalories + carbsCalories
    IN  [protein |-> [grams      |-> proteinGrams,
                      calories   |-> proteinCalories,
                      percentage |-> Percentage(proteinCalories, totalCalories),
                      min        |-> Grams(w, 13),
                      max        |-> Grams(w, 33)],
         fat     |-> [grams      |-> fatGrams,
                      calories   |-> fatCalories,
                      percentage |-> Percentage(fatCalories, totalCalories)],
         carbs   |-> [grams      |-> carbsGrams,
                      calories   |-> carbsCalories,
                      percentage |-> Percentage(carbsCalories, totalCalories),
                      min        |-> Grams(w, carbRanges[level].min),
                      max        |-> Grams(w, carbRanges[level].max)],
         totalCalories |-> totalCalories]

\* variant: the carbohydrates of a moderate day, whatever the type
getDayMacrosModerateCarbs(type, w, pPerKg, fPerKg) ==
    LET proteinGrams  == Grams(w, pPerKg)
        fatGrams      == Grams(w, fPerKg)
        carbsGrams    == Grams(w, carbRanges["moderate"].optimal)
    IN  [protein |-> proteinGrams, carbs |-> carbsGrams, fat |-> fatGrams,
         calories |-> proteinGrams * 4 + fatGrams * 9 + carbsGrams * 4]

\* getDayMacros(activityType), on the current weight and per-kg settings
getDayMacros(type, w, pPerKg, fPerKg) ==
    LET proteinGrams    == Grams(w, pPerKg)
        fatGrams        == Grams(w, fPerKg)
        carbsGrams      == Grams(w, carbRanges[type].optimal)
        proteinCalories == proteinGrams * 4
        fatCalories     == fatGrams * 9
        carbsCalories   == carbsGrams * 4
        totalCalories   == proteinCalories + fatCalories + carbsCalories
    IN  [protein |-> proteinGrams, carbs |-> carbsGrams, fat |-> fatGrams,
         calories |-> totalCalories]

\* weeklyPlan.value.reduce((acc, day) => acc + getDayMacros(day.type).calories, 0)
RECURSIVE PlanCalories(_, _, _, _, _)
PlanCalories(plan, n, w, pPerKg, fPerKg) ==
    IF n = 0 THEN 0
    ELSE PlanCalories(plan, n - 1, w, pPerKg, fPerKg)
            + getDayMacros(plan[n - 1].type, w, pPerKg, fPerKg).calories

\* variant: the balance is averaged over the seven days
WeeklyDeficitDayAverage(t, plan, w, pPerKg, fPerKg) ==
    Round(t * 7 - PlanCalories(plan, 7, w, pPerKg, fPerKg), 7)

\* variant: the reduce stops before the last entry (Sunday)
WeeklyDeficitSixDays(t, plan, w, pPerKg, fPerKg) ==
    Round(t * 7 - PlanCalories(plan, 6, w, pPerKg, fPerKg), 1)

\* weeklyDeficit: Math.round(tdee.value * 7 - weeklyPlan.value.reduce(...))
WeeklyDeficit(t, plan, w, pPerKg, fPerKg) ==
    Round(t * 7 - PlanCalories(plan, 7, w, pPerKg, fPerKg), 1)

\* 3500 calories ~ 1 pound of fat
CaloriesPerPound == 3500

\* The quotient m / 20 (m odd) is stored as the nearest double.  Its binary
\* expansion is that of m / 5 shifted by two places; with e the exponent of
\* m / 5, the part cut off after the 53rd significant bit is
\* ((m * 2^(52 - e)) mod 5) / 5 of the last kept bit.  LastBitWeight(m) is
\* 2^(52 - e) mod 5.
RECURSIVE LastBitWeight(_)
LastBitWeight(m) ==
    IF m < 5 THEN (2 * LastBitWeight(2 * m)) % 5
    ELSE IF m >= 10 THEN (3 * LastBitWeight(m \div 2)) % 5
    ELSE 1

\* n / 3500 is a decimal half of a tenth and its double lies below it
QuotientBelowHalf(n) ==
    /\ n % (CaloriesPerPound \div 10) = CaloriesPerPound \div 20
    /\ ((n \div (CaloriesPerPound \div 20))
            * LastBitWeight(n \div (CaloriesPerPound \div 20))) % 5 \in {1, 2}

\* (n / 3500).toFixed(1) for n >= 0, as a number of tenths: the tenth nearest
\* to the double, the larger one when the double is exactly half way
ToFixed1(n) ==
    IF QuotientBelowHalf(n)
    THEN n \div (CaloriesPerPound \div 10)
    ELSE Round(n, CaloriesPerPound \div 10)

\* variant: a zero deficit counts as a loss
getWeightChangeEstimateZeroLoss(d) ==
    [pounds    |-> ToFixed1(Abs(d)),
     direction |-> IF d >= 0 THEN "loss" ELSE "gain",
     type      |-> IF d >= 0 THEN "deficit" ELSE "surplus"]

\* variant: Math.abs is left out
getWeightChangeEstimateSigned(d) ==
    [pounds    |-> IF d < 0 THEN 0 - ToFixed1(Abs(d)) ELSE ToFixed1(d),
     direction |-> IF d > 0 THEN "loss" ELSE "gain",
     type      |-> IF d > 0 THEN "deficit" ELSE "surplus"]

\* getWeightChangeEstimate(weeklyDeficit); pounds in tenths of a pound
getWeightChangeEstimate(d) ==
    [pounds    |-> ToFixed1(Abs(d)),
     direction |-> IF d > 0 THEN "loss" ELSE "gain",
     type      |-> IF d > 0 THEN "deficit" ELSE "surplus"]

\* what new Date().getDay() can return
Weekdays == 0..6

\* const days = ['Sunday', 'Monday', ...]
days ==
    [i \in Weekdays |->
        CASE i = 0 -> "Sunday"
          [] i = 1 -> "Monday"
          [] i = 2 -> "Tuesday"
          [] i = 3 -> "Wednesday"
          [] i = 4 -> "Thursday"
          [] i = 5 -> "Friday"
          [] i = 6 -> "Saturday"]

\* variant: the names are looked up in the order of the weekly plan
isCurrentDayMondayFirst(dayName, today) == dayName = DayNames[today]

\* isCurrentDay(dayName), today being the value of new Date().getDay()
isCurrentDay(dayName, today) == dayName = days[today]

\* variant: only hard days count as training days
TrainingDaysHardOnly(plan) ==
    Cardinality({k \in DOMAIN plan : plan[k].type = "hard"})

\* weeklyPlan.filter((day) => day.type !== 'rest').length
TrainingDays(plan) ==
    Cardinality({k \in DOMAIN plan : plan[k].type # "rest"})

\* weeklyPlan.filter((day) => day.type === 'rest').length
RestDays(plan) ==
    Cardinality({k \in DOMAIN plan : plan[k].type = "rest"})

----------------------------------------------------------------------------
(* State *)

\* values entered in the interactive session (Spec)
Heights == {170, 182}
Weights == {0 - 50, 0, 700, 850, 853}
Ages == {25, 39}
ProteinPerKgs == {13, 18, 23, 33}
FatPerKgs == {8, 10, 12}

Op(name, arg) == [name |-> name, arg |-> arg]

\* variant: the macros keep their previous value, whatever the new refs
RecomputeStaleMacros ==
    /\ rmr' = Rmr(height', weight', age', gender')
    /\ tdee' = Tdee(rmr', activityMultipliers', activityLevel')
    /\ bodyCompositionTdee' = BodyCompositionTdee(tdee')
    /\ carbsPerKg' = CarbsPerKg(carbCycleLevel')
    /\ macros' = macros
    /\ weeklyDeficit' = WeeklyDeficit(tdee', weeklyPlan', weight', proteinPerKg', fatPerKg')

\* the reactive system re-evaluates every computed from the new refs
Recompute ==
    /\ rmr' = Rmr(height', weight', age', gender')
    /\ tdee' = Tdee(rmr', activityMultipliers', activityLevel')
    /\ bodyCompositionTdee' = BodyCompositionTdee(tdee')
    /\ carbsPerKg' = CarbsPerKg(carbCycleLevel')
    /\ macros' = Macros(weight', proteinPerKg', fatPerKg', carbsPerKg', carbCycleLevel')
    /\ weeklyDeficit' = WeeklyDeficit(tdee', weeklyPlan', weight', proteinPerKg', fatPerKg')

\* the state after <script setup> has run, for given values of the profile refs
\* and of the weekly plan
Setup(h, w, a, plan) ==
    /\ height = h
    /\ weight = w
    /\ age = a
    /\ gender = "female"
    /\ activityLevel = "sedentary"
    /\ activityMultipliers = ActivityMultipliers(gender)
    /\ proteinPerKg = 18
    /\ fatPerKg = 10
    /\ carbCycleLevel = "moderate"
    /\ weeklyPlan = plan
    /\ selectedDay = 0
    /\ rmr = Rmr(height, weight, age, gender)
    /\ tdee = Tdee(rmr, activityMultipliers, activityLevel)
    /\ bodyCompositionTdee = BodyCompositionTdee(tdee)
    /\ carbsPerKg = CarbsPerKg(carbCycleLevel)
    /\ macros = Macros(weight, proteinPerKg, fatPerKg, carbsPerKg, carbCycleLevel)
    /\ weeklyDeficit = WeeklyDeficit(tdee, weeklyPlan, weight, proteinPerKg, fatPerKg)
    /\ lastOp = Op("setup", 0)
    /\ changes = 0

Init == Setup(182, 853, 39, InitialWeeklyPlan)

----------------------------------------------------------------------------
(* Input handlers: v-model bindings and the copy button *)

SetHeight(v) ==
    /\ v # height
    /\ height' = v
    /\ UNCHANGED <<weight, age, gender, activityLevel, activityMultipliers,
                   proteinPerKg, fatPerKg, carbCycleLevel, weeklyPlan, selectedDay>>
    /\ lastOp' = Op("height", 0)
    /\ Recompute

SetWeight(v) ==
    /\ v # weight
    /\ weight' = v
    /\ UNCHANGED <<height, age, gender, activityLevel, activityMultipliers,
                   proteinPerKg, fatPerKg, carbCycleLevel, weeklyPlan, selectedDay>>
    /\ lastOp' = Op("weight", 0)
    /\ Recompute

SetAge(v) ==
    /\ v # age
    /\ age' = v
    /\ UNCHANGED <<height, weight, gender, activityLevel, activityMultipliers,
                   proteinPerKg, fatPerKg, carbCycleLevel, weeklyPlan, selectedDay>>
    /\ lastOp' = Op("age", 0)
    /\ Recompute

\* v-model="gender": only the ref is written; the multiplier object is not rebuilt
SetGender(g) ==
    /\ g # gender
    /\ gender' = g
    /\ UNCHANGED <<height, weight, age, activityLevel, activityMultipliers,
                   proteinPerKg, fatPerKg, carbCycleLevel, weeklyPlan, selectedDay>>
    /\ lastOp' = Op("gender", 0)
    /\ Recompute

SetActivityLevel(l) ==
    /\ l # activityLevel
    /\ activityLevel' = l
    /\ UNCHANGED <<height, weight, age, gender, activityMultipliers,
                   proteinPerKg, fatPerKg, carbCycleLevel, weeklyPlan, selectedDay>>
    /\ lastOp' = Op("activityLevel", 0)
    /\ Recompute

SetProteinPerKg(v) ==
    /\ v # proteinPerKg
    /\ proteinPerKg' = v
    /\ UNCHANGED <<height, weight, age, gender, activityLevel, activityMultipliers,
                   fatPerKg, carbCycleLevel, weeklyPlan, selectedDay>>
    /\ lastOp' = Op("proteinPerKg", 0)
    /\ Recompute

SetFatPerKg(v) ==
    /\ v # fatPerKg
    /\ fatPerKg' = v
    /\ UNCHANGED <<height, weight, age, gender, activityLevel, activityMultipliers,
                   proteinPerKg, carbCycleLevel, weeklyPlan, selectedDay>>
    /\ lastOp' = Op("fatPerKg", 0)
    /\ Recompute

SetCarbCycleLevel(t) ==
    /\ t # carbCycleLevel
    /\ carbCycleLevel' = t
    /\ UNCHANGED <<height, weight, age, gender, activityLevel, activityMultipliers,
                   proteinPerKg, fatPerKg, weeklyPlan, selectedDay>>
    /\ lastOp' = Op("carbCycleLevel", 0)
    /\ Recompute

\* mobile view: v-model="selectedDay"
SetSelectedDay(i) ==
    /\ i # selectedDay
    /\ selectedDay' = i
    /\ UNCHANGED <<height, weight, age, gender, activityLevel, activityMultipliers,
                   proteinPerKg, fatPerKg, carbCycleLevel, weeklyPlan>>
    /\ lastOp' = Op("selectedDay", i)
    /\ Recompute

\* desktop view: v-model="day.type" of entry i
SetDayType(i, t) ==
    /\ t # weeklyPlan[i].type
    /\ weeklyPlan' = [weeklyPlan EXCEPT ![i].type = t]
    /\ UNCHANGED <<height, weight, age, gender, activityLevel, activityMultipliers,
                   proteinPerKg, fatPerKg, carbCycleLevel, selectedDay>>
    /\ lastOp' = Op("dayType", i)
    /\ Recompute

\* mobile view: v-model="weeklyPlan[selectedDay].type"
SetSelectedDayType(t) ==
    /\ t # weeklyPlan[selectedDay].type
    /\ weeklyPlan' = [weeklyPlan EXCEPT ![selectedDay].type = t]
    /\ UNCHANGED <<height, weight, age, gender, activityLevel, activityMultipliers,
                   proteinPerKg, fatPerKg, carbCycleLevel, selectedDay>>
    /\ lastOp' = Op("selectedDayType", selectedDay)
    /\ Recompute

\* variant: only the entries after fromIndex are overwritten
CopiedPlanForward(plan, fromIndex) ==
    LET fromDay == plan[fromIndex]
    IN  [index \in DOMAIN plan |->
            IF index > fromIndex
            THEN [plan[index] EXCEPT !.type = fromDay.type]
            ELSE plan[index]]

\* variant: only the two neighbours of fromIndex are overwritten
CopiedPlanNeighbours(plan, fromIndex) ==
    LET fromDay == plan[fromIndex]
    IN  [index \in DOMAIN plan |->
            IF index = fromIndex - 1 \/ index = fromIndex + 1
            THEN [plan[index] EXCEPT !.type = fromDay.type]
            ELSE plan[index]]

\* variant: every other entry is replaced by fromDay itself, name included
CopiedPlanWholeEntry(plan, fromIndex) ==
    LET fromDay == plan[fromIndex]
    IN  [index \in DOMAIN plan |->
            IF index # fromIndex THEN fromDay ELSE plan[index]]

\* the forEach of copyDaySettings: every entry but fromIndex takes fromDay.type
CopiedPlan(plan, fromIndex) ==
    LET fromDay == plan[fromIndex]
    IN  [index \in DOMAIN plan |->
            IF index # fromIndex
            THEN [plan[index] EXCEPT !.type = fromDay.type]
            ELSE plan[index]]

\* variant: the copy also moves the mobile day selector to fromIndex
copyDaySettingsSelecting(fromIndex) ==
    /\ weeklyPlan' = CopiedPlan(weeklyPlan, fromIndex)
    /\ selectedDay' = fromIndex
    /\ UNCHANGED <<height, weight, age, gender, activityLevel, activityMultipliers,
                   proteinPerKg, fatPerKg, carbCycleLevel>>
    /\ lastOp' = Op("copyDaySettings", fromIndex)
    /\ Recompute

\* desktop view: @click="copyDaySettings(index)"
copyDaySettings(fromIndex) ==
    /\ weeklyPlan' = CopiedPlan(weeklyPlan, fromIndex)
    /\ UNCHANGED <<height, weight, age, gender, activityLevel, activityMultipliers,
                   proteinPerKg, fatPerKg, carbCycleLevel, selectedDay>>
    /\ lastOp' = Op("copyDaySettings", fromIndex)
    /\ Recompute

\* mobile view: @click="copyDaySettings(selectedDay)"
CopySelectedDay == copyDaySettings(selectedDay)

----------------------------------------------------------------------------
(* The interactive session: any sequence of at most MaxChanges input events *)

Next ==
    /\ changes < MaxChanges
    /\ changes' = changes + 1
    /\ \/ \E v \in Heights : SetHeight(v)
       \/ \E v \in Weights : SetWeight(v)
       \/ \E v \in Ages : SetAge(v)
       \/ \E g \in Genders : SetGender(g)
       \/ \E l \in ActivityLevels : SetActivityLevel(l)
       \/ \E v \in ProteinPerKgs : SetProteinPerKg(v)
       \/ \E v \in FatPerKgs : SetFatPerKg(v)
       \/ \E t \in ActivityTypes : SetCarbCycleLevel(t)
       \/ \E i \in DayIndex : SetSelectedDay(i)
       \/ \E i \in DayIndex, t \in ActivityTypes : SetDayType(i, t)
       \/ \E t \in ActivityTypes : SetSelectedDayType(t)
       \/ \E i \in DayIndex : copyDaySettings(i)
       \/ CopySelectedDay

Spec == Init /\ [][Next]_vars

----------------------------------------------------------------------------
(* The RMR / TDEE formulas over a range of profiles: the profile is any of  *)
(* the range, then gender and activity level are changed at will.          *)

\* profiles <<height, weight, age>> at which the exact Harris-Benedict value
\* or the exact average of a woman is a half
HalfProfiles == {<<160, 310, 71>>, <<181, 370, 84>>, <<182, 1330, 66>>}

InitRmr ==
    \/ \E h \in MinHeight..MaxHeight, w \in MinWeight..MaxWeight, a \in MinAge..MaxAge :
           Setup(h, w, a, InitialWeeklyPlan)
    \/ \E p \in HalfProfiles : Setup(p[1], p[2], p[3], InitialWeeklyPlan)

NextRmr ==
    /\ UNCHANGED changes
    /\ \/ \E g \in Genders : SetGender(g)
       \/ \E l \in ActivityLevels : SetActivityLevel(l)

SpecRmr == InitRmr /\ [][NextRmr]_vars

(* The macro formulas over a range of weights and every slider position.   *)

\* weights at which some slider position makes the exact gram value, or the
\* exact share of the calories, a half
HalfWeights == {404, 850}

InitMacros ==
    \E w \in (MinWeight..MaxWeight) \cup HalfWeights : Setup(182, w, 39, InitialWeeklyPlan)

NextMacros ==
    /\ UNCHANGED changes
    /\ \/ \E v \in ProteinMin..ProteinMax : SetProteinPerKg(v)
       \/ \E v \in FatMin..FatMax : SetFatPerKg(v)
       \/ \E t \in ActivityTypes : SetCarbCycleLevel(t)

SpecMacros == InitMacros /\ [][NextMacros]_vars

(* The copy button over every weekly plan the per-day selectors can build. *)

InitPlan == \E types \in [DayIndex -> ActivityTypes] : Setup(182, 853, 39, Plan(types))

NextPlan ==
    /\ UNCHANGED changes
    /\ \E i \in DayIndex : copyDaySettings(i)

SpecPlan == InitPlan /\ [][NextPlan]_vars

(* Runs of the copy button alone, counted, from every weekly plan.         *)

NextCopies ==
    /\ changes < MaxChanges
    /\ changes' = changes + 1
    /\ \E i \in DayIndex : copyDaySettings(i)

SpecCopies == InitPlan /\ [][NextCopies]_vars

(* Per-day edits of the weekly plan, counted, over a range of weights.     *)

NextDays ==
    /\ changes < MaxChanges
    /\ changes' = changes + 1
    /\ \E i \in DayIndex, t \in ActivityTypes : SetDayType(i, t)

SpecDays == InitMacros /\ [][NextDays]_vars

(* The weight change estimate over a range of profiles: the activity level *)
(* and the copy button move the weekly deficit through both signs.         *)

InitEstimate ==
    \E h \in MinHeight..MaxHeight, w \in MinWeight..MaxWeight :
        Setup(h, w, 39, InitialWeeklyPlan)

NextEstimate ==
    /\ UNCHANGED changes
    /\ \/ \E l \in ActivityLevels : SetActivityLevel(l)
       \/ \E i \in DayIndex : copyDaySettings(i)

SpecEstimate == InitEstimate /\ [][NextEstimate]_vars

(* Values the form widgets would not offer, assigned to the refs directly. *)

OutOfRangeHeights == {0 - 10, 0, 6}
OutOfRangeWeights == {0 - 50, 0, 270, 4000}
OutOfRangeAges == {0 - 5, 0}

NextOutOfRange ==
    /\ UNCHANGED changes
    /\ \/ \E v \in Heights \cup OutOfRangeHeights : SetHeight(v)
       \/ \E v \in Weights \cup OutOfRangeWeights : SetWeight(v)
       \/ \E v \in Ages \cup OutOfRangeAges : SetAge(v)
       \/ \E g \in Genders : SetGender(g)
       \/ \E l \in ActivityLevels : SetActivityLevel(l)

SpecOutOfRange == Init /\ [][NextOutOfRange]_vars

----------------------------------------------------------------------------
(* Properties *)

\* r is x rounded to the nearest integer, halves up, for x = n / d with d > 0:
\* r - 1/2 <= n/d < r + 1/2
IsRounded(r, n, d) == 2 * d * r - d <= 2 * n /\ 2 * n < 2 * d * r + d

\* the multiplier table of the documentation, in tenths, for a given sex
DocumentedMultiplier(l, g) ==
    CASE l = "bed-rest"       -> 12
      [] l = "very-sedentary" -> 13
      [] l = "sedentary"      -> 14
      [] l = "light"          -> 15
      [] l = "light-moderate" -> IF g = "male" THEN 17 ELSE 16
      [] l = "moderate"       -> IF g = "male" THEN 18 ELSE 17
      [] l = "heavy"          -> IF g = "male" THEN 21 ELSE 18
      [] l = "very-heavy"     -> IF g = "male" THEN 23 ELSE 20

\* C1: in every reachable state tdee = round(rmr.average x m), m being the
\* multiplier of the current activity level for the CURRENT sex.
C1_TdeeFollowsCurrentSex ==
    IsRounded(tdee, rmr.average * DocumentedMultiplier(activityLevel, gender), 10)

DefaultProfile ==
    height = 182 /\ weight = 853 /\ age = 39 /\ gender = "female"

\* C2 (as stated): for the initial profile (85.3 kg, 182 cm, 39, female) the RMR
\* result is mifflin 1634, harris 1578, average 1606.
C2_StatedInitialRmr ==
    DefaultProfile => rmr = [mifflin |-> 1634, harris |-> 1578, average |-> 1606]

\* C2 (amended): for the initial profile (85.3 kg, 182 cm, 39, female) the RMR
\* result is mifflin 1635, harris 1631, average 1633.
C2_InitialRmr ==
    DefaultProfile => rmr = [mifflin |-> 1635, harris |-> 1631, average |-> 1633]

\* the initial profile, shown again after the weight was changed and set back
C2_Witness ==
    /\ DefaultProfile
    /\ changes = 2
    /\ lastOp.name = "weight"
    /\ rmr.mifflin = 1635

\* the unrounded formulas of the documentation; weight in tenths of a kg
\* Mifflin-St Jeor in quarters of a kcal: 10 w + 6.25 h - 5 a + s
MifflinQuarters == 4 * weight + 25 * height - 20 * age
                       + (IF gender = "male" THEN 20 ELSE 0 - 644)
\* Harris-Benedict in 1/10000 kcal
HarrisTenThousandths ==
    IF gender = "male"
    THEN 883620 + 13397 * weight + 47990 * height - 56770 * age
    ELSE 4475930 + 9247 * weight + 30980 * height - 43300 * age

\* C3: for every profile rmr.mifflin = round(10 w + 6.25 h - 5 a + s), s = 5 for
\* male and -161 for female, and rmr.harris = round(88.362 + 13.397 w + 4.799 h
\* - 5.677 a) for male, round(447.593 + 9.247 w + 3.098 h - 4.330 a) for female,
\* halves rounded up.
C3_RmrFormulas ==
    /\ IsRounded(rmr.mifflin, MifflinQuarters, 4)
    /\ IsRounded(rmr.harris, HarrisTenThousandths, 10000)

\* C4: rmr.average = round((M + H) / 2) of the unrounded Mifflin and
\* Harris-Benedict values M and H.
C4_AverageOfUnrounded ==
    IsRounded(rmr.average, 2500 * MifflinQuarters + HarrisTenThousandths, 20000)

LowTiers == {"bed-rest", "very-sedentary", "sedentary", "light"}

\* C5: for each activity level tdee = round(rmr.average x multiplier[level]) from
\* the rounded rmr.average; the four lowest tiers have the multipliers 1.2, 1.3,
\* 1.4, 1.5 for both sexes, 'sedentary' being 1.4 regardless of sex.
C5_TdeeFromRoundedAverage ==
    /\ IsRounded(tdee, rmr.average * activityMultipliers[activityLevel], 10)
    /\ activityLevel = "bed-rest" => IsRounded(tdee, rmr.average * 12, 10)
    /\ activityLevel = "very-sedentary" => IsRounded(tdee, rmr.average * 13, 10)
    /\ activityLevel = "sedentary" => IsRounded(tdee, rmr.average * 14, 10)
    /\ activityLevel = "light" => IsRounded(tdee, rmr.average * 15, 10)

\* a male profile at 'sedentary', reached by changing the level
C5_Witness ==
    /\ gender = "male"
    /\ activityLevel = "sedentary"
    /\ lastOp.name = "activityLevel"
    /\ IsRounded(tdee, rmr.average * 14, 10)
    /\ (rmr.average * 14) % 10 # 0

\* C6: weightLoss = tdee - 500, maintenance = tdee, weightGain = tdee + 500,
\* hence weightLoss + 1000 = weightGain and weightLoss < maintenance < weightGain.
C6_BodyCompositionOffsets ==
    /\ bodyCompositionTdee.weightLoss = tdee - 500
    /\ bodyCompositionTdee.maintenance = tdee
    /\ bodyCompositionTdee.weightGain = tdee + 500
    /\ bodyCompositionTdee.weightLoss + 1000 = bodyCompositionTdee.weightGain
    /\ bodyCompositionTdee.weightLoss < bodyCompositionTdee.maintenance
    /\ bodyCompositionTdee.maintenance < bodyCompositionTdee.weightGain

\* the targets after the activity level was raised to 'heavy'
C6_Witness ==
    /\ lastOp.name = "activityLevel"
    /\ activityLevel = "heavy"
    /\ bodyCompositionTdee.weightLoss + 1000 = bodyCompositionTdee.weightGain
    /\ bodyCompositionTdee.maintenance = tdee

\* p is Math.round(calories / total x 100), total > 0
IsPercentage(p, calories, total) ==
    IsNum(p) /\ IsRounded(Val(p), 100 * calories, total)

\* C7: grams = round(weight x perKg) for each macro, calories = 4, 9, 4 per gram
\* of protein, fat, carbs, totalCalories = their sum, and each percentage =
\* round(macroCalories / totalCalories x 100).
C7_MacroFormulas ==
    /\ IsRounded(macros.protein.grams, weight * proteinPerKg, 100)
    /\ IsRounded(macros.fat.grams, weight * fatPerKg, 100)
    /\ IsRounded(macros.carbs.grams, weight * carbsPerKg, 100)
    /\ macros.protein.calories = 4 * macros.protein.grams
    /\ macros.fat.calories = 9 * macros.fat.grams
    /\ macros.carbs.calories = 4 * macros.carbs.grams
    /\ macros.totalCalories =
          macros.protein.calories + macros.fat.calories + macros.carbs.calories
    /\ macros.totalCalories > 0 =>
          /\ IsPercentage(macros.protein.percentage, macros.protein.calories,
                          macros.totalCalories)
          /\ IsPercentage(macros.fat.percentage, macros.fat.calories,
                          macros.totalCalories)
          /\ IsPercentage(macros.carbs.percentage, macros.carbs.calories,
                          macros.totalCalories)

\* the Total row of the results table prints this percentage
TotalRowPercentage == 100

PercentageSum ==
    Val(macros.protein.percentage) + Val(macros.fat.percentage)
        + Val(macros.carbs.percentage)

\* C8: whenever totalCalories > 0 the three percentages add up to a value in
\* [97, 103], which need not be 100.
C8_PercentageSumInBand ==
    macros.totalCalories > 0 =>
        /\ IsNum(macros.protein.percentage)
        /\ IsNum(macros.fat.percentage)
        /\ IsNum(macros.carbs.percentage)
        /\ PercentageSum >= 97
        /\ PercentageSum <= 103

\* settings whose percentages do not add up to the printed total
C8_Witness ==
    /\ macros.totalCalories > 0
    /\ lastOp.name = "proteinPerKg"
    /\ PercentageSum # TotalRowPercentage

AllGramsZero ==
    macros.protein.grams = 0 /\ macros.fat.grams = 0 /\ macros.carbs.grams = 0

\* C9: when all three gram values are zero, every percentage is NaN while grams,
\* calories and totalCalories = 0 are still returned.
C9_ZeroTotalGivesNaN ==
    AllGramsZero =>
        /\ macros.totalCalories = 0
        /\ macros.protein.calories = 0
        /\ macros.fat.calories = 0
        /\ macros.carbs.calories = 0
        /\ macros.protein.percentage = NaN
        /\ macros.fat.percentage = NaN
        /\ macros.carbs.percentage = NaN

\* the weight set to 0
C9_Witness ==
    /\ weight = 0
    /\ lastOp.name = "weight"
    /\ AllGramsZero
    /\ macros.fat.percentage = NaN

\* C10: after copyDaySettings(i) all 7 entries have the type entry i had before
\* the call.
C10_CopyMakesPlanUniform ==
    [][lastOp'.name = "copyDaySettings" =>
          \A k \in DayIndex : weeklyPlan'[k].type = weeklyPlan[lastOp'.arg].type]_vars

\* the copy button of Wednesday pressed while Wednesday is a hard day
C10_Witness ==
    /\ lastOp = Op("copyDaySettings", 2)
    /\ \A k \in DayIndex : weeklyPlan[k].type = "hard"

----------------------------------------------------------------------------
(* C11 *)

\* calories of the plan entry k, by getDayMacros on the current settings
DayCalories(k) ==
    getDayMacros(weeklyPlan[k].type, weight, proteinPerKg, fatPerKg).calories

\* C11: after any sequence of profile changes, macro-setting changes, per-day
\* activity changes and copyDaySettings calls, weeklyDeficit is the rounded
\* difference of 7 x tdee and the sum over the 7 plan entries of
\* getDayMacros(entry.type).calories, on the current state.
C11_WeeklyDeficitFormula ==
    IsRounded(weeklyDeficit,
              7 * tdee - (DayCalories(0) + DayCalories(1) + DayCalories(2)
                          + DayCalories(3) + DayCalories(4) + DayCalories(5)
                          + DayCalories(6)),
              1)

\* a profile change followed by a copy of Sunday's rest type to every day
C11_Witness ==
    /\ changes = 2
    /\ weight = 700
    /\ lastOp = Op("copyDaySettings", 6)
    /\ \A k \in DayIndex : weeklyPlan[k].type = "rest"
    /\ weeklyDeficit = 7 * tdee - 7 * DayCalories(6)

----------------------------------------------------------------------------
(* C12, C13 *)

\* the estimate shown for the current weekly deficit
Estimate == getWeightChangeEstimate(weeklyDeficit)

\* C12: getWeightChangeEstimate(d).direction is 'loss' exactly when d > 0 and
\* 'gain' when d <= 0, so a zero deficit is reported as a gain; type is
\* 'deficit' exactly when direction is 'loss' and 'surplus' otherwise.
C12_DirectionAndType ==
    /\ Estimate.direction \in {"loss", "gain"}
    /\ Estimate.type \in {"deficit", "surplus"}
    /\ Estimate.direction = "loss" <=> weeklyDeficit > 0
    /\ Estimate.direction = "gain" <=> weeklyDeficit <= 0
    /\ Estimate.type = "deficit" <=> Estimate.direction = "loss"

\* the plan was made uniform and the week balances exactly
C12_Witness ==
    /\ weeklyDeficit = 0
    /\ lastOp.name = "copyDaySettings"
    /\ Estimate.direction = "gain"
    /\ Estimate.type = "surplus"

\* C13: for every integer weekly deficit d, pounds is |d| / 3500 rounded to
\* one decimal place (the nearest tenth, a half of a tenth going up as round
\* does), it is never negative, and it depends only on |d|:
\* pounds(d) = pounds(-d).
C13_PoundsRounded ==
    /\ Estimate.pounds >= 0
    /\ Estimate.pounds = Round(10 * Abs(weeklyDeficit), CaloriesPerPound)
    /\ getWeightChangeEstimate(0 - weeklyDeficit).pounds = Estimate.pounds

----------------------------------------------------------------------------
(* C14, C15 *)

\* the lookup table as documented, in tenths of g/kg
DocumentedCarbRanges ==
    [t \in ActivityTypes |->
        CASE t = "rest"     -> [min |-> 0,  max |-> 22, optimal |-> 11]
          [] t = "light"    -> [min |-> 11, max |-> 33, optimal |-> 22]
          [] t = "moderate" -> [min |-> 22, max |-> 44, optimal |-> 33]
          [] t = "hard"     -> [min |-> 33, max |-> 55, optimal |-> 44]]

\* what getDayMacros returns for type t in the current state
DayMacros(t) == getDayMacros(t, weight, proteinPerKg, fatPerKg)

\* C14: for fixed weight, proteinPerKg and fatPerKg, getDayMacros returns the
\* same protein grams and the same fat grams for all four activity types;
\* only carbs = round(weight x carbRanges[type].optimal) and
\* calories = 4 x protein + 9 x fat + 4 x carbs vary with the type.
C14_DayMacros ==
    \A t \in ActivityTypes :
        /\ \A u \in ActivityTypes :
              /\ DayMacros(u).protein = DayMacros(t).protein
              /\ DayMacros(u).fat = DayMacros(t).fat
        /\ IsRounded(DayMacros(t).carbs,
                     weight * DocumentedCarbRanges[t].optimal, 100)
        /\ DayMacros(t).calories =
              4 * DayMacros(t).protein + 9 * DayMacros(t).fat
                  + 4 * DayMacros(t).carbs

\* protein at 3.3 g/kg: rest and hard days share protein and fat and differ
\* in carbohydrates and calories
C14_Witness ==
    /\ lastOp.name = "proteinPerKg"
    /\ proteinPerKg = 33
    /\ DayMacros("rest").protein = DayMacros("hard").protein
    /\ DayMacros("rest").fat = DayMacros("hard").fat
    /\ DayMacros("rest").carbs < DayMacros("hard").carbs
    /\ DayMacros("rest").calories < DayMacros("hard").calories

\* C15: the carbohydrate lookup table is fixed at rest {0, 2.2, 1.1}, light
\* {1.1, 3.3, 2.2}, moderate {2.2, 4.4, 3.3}, hard {3.3, 5.5, 4.4} g/kg
\* (min, max, optimal), no operation changes it, and in every reachable state
\* carbsPerKg is the optimal value of the selected carb-cycle level.
C15_CarbTable ==
    /\ DOMAIN carbRanges = {"rest", "light", "moderate", "hard"}
    /\ \A t \in DOMAIN carbRanges : carbRanges[t] = DocumentedCarbRanges[t]
    /\ carbsPerKg = DocumentedCarbRanges[carbCycleLevel].optimal

\* the carb-cycle selector was moved to hard
C15_Witness ==
    /\ lastOp.name = "carbCycleLevel"
    /\ carbCycleLevel = "hard"
    /\ carbsPerKg = 44
    /\ macros.carbs.grams = Round(weight * 44, 100)

----------------------------------------------------------------------------
(* C16 *)

\* a profile the form would not offer
OutOfRange ==
    \/ weight < WeightMin
    \/ weight > WeightMax
    \/ height <= 0
    \/ age <= 0

\* C16: the calculation core rejects no numeric input: for out-of-range values
\* set programmatically (zero or negative weight, height or age, or weight
\* outside [30, 350]) no error is raised and no value is clamped; rmr, tdee,
\* bodyComposition and macro grams follow the same formulas from the values
\* as given: Math.round of the same double expressions, of the refs unclamped.
C16_NoRejection ==
    OutOfRange =>
        /\ IsRounded(rmr.mifflin, MifflinQuarters, 4)
        /\ rmr.harris = RoundOf(HarrisExpression(height, weight, age, gender),
                                HarrisTenThousandths, 10000)
        /\ rmr.average = RoundOf(AverageExpression(height, weight, age, gender),
                                 2500 * MifflinQuarters + HarrisTenThousandths,
                                 20000)
        /\ IsRounded(tdee, rmr.average * activityMultipliers[activityLevel], 10)
        /\ bodyCompositionTdee = [weightLoss |-> tdee - 500, maintenance |-> tdee,
                                  weightGain |-> tdee + 500]
        /\ macros.protein.grams = RoundProduct(weight, proteinPerKg)
        /\ macros.fat.grams = RoundProduct(weight, fatPerKg)
        /\ macros.carbs.grams = RoundProduct(weight, carbsPerKg)

\* a negative weight, a zero height and a negative age, taken as given
C16_Witness ==
    /\ weight = 0 - 50
    /\ height = 0
    /\ age = 0 - 5
    /\ lastOp.name = "age"
    /\ rmr.mifflin < 0
    /\ macros.protein.grams = 0 - 9
    /\ bodyCompositionTdee.weightGain = tdee + 500

----------------------------------------------------------------------------
(* C17, C18 *)

\* C17: every derived value (rmr, tdee, bodyComposition, macros, weeklyDeficit)
\* is a function of the current input values only: two sequences of input
\* changes that end with the same height, weight, age, sex, activity level,
\* macro settings and weekly plan yield identical derived values, nothing
\* stale being carried over from earlier inputs.  Stated as: each derived value
\* equals one fixed expression of the current inputs, in which no earlier
\* value of the state occurs.
C17_DerivedFromCurrentInputs ==
    /\ rmr = Rmr(height, weight, age, gender)
    /\ tdee = Tdee(Rmr(height, weight, age, gender), ActivityMultipliers("female"),
                   activityLevel)
    /\ bodyCompositionTdee =
          BodyCompositionTdee(Tdee(Rmr(height, weight, age, gender),
                                   ActivityMultipliers("female"), activityLevel))
    /\ macros = Macros(weight, proteinPerKg, fatPerKg, CarbsPerKg(carbCycleLevel),
                       carbCycleLevel)
    /\ weeklyDeficit =
          WeeklyDeficit(Tdee(Rmr(height, weight, age, gender),
                             ActivityMultipliers("female"), activityLevel),
                        weeklyPlan, weight, proteinPerKg, fatPerKg)

\* the weight was changed and set back: setup values again, by another path
C17_Witness ==
    /\ changes = 2
    /\ lastOp.name = "weight"
    /\ DefaultProfile
    /\ activityLevel = "sedentary"
    /\ weeklyPlan = InitialWeeklyPlan
    /\ tdee = 2286
    /\ macros.protein.grams = 154
    /\ weeklyDeficit = WeeklyDeficit(2286, InitialWeeklyPlan, 853, 18, 10)

\* C18: in every reachable state the weekly plan has exactly 7 entries whose
\* day names are Monday, Tuesday, Wednesday, Thursday, Friday, Saturday,
\* Sunday in that order, and each entry's type is one of rest, light,
\* moderate, hard; no operation adds, removes, renames or reorders entries.
C18_PlanShape ==
    /\ DOMAIN weeklyPlan = 0..6
    /\ Cardinality(DOMAIN weeklyPlan) = 7
    /\ weeklyPlan[0].day = "Monday"
    /\ weeklyPlan[1].day = "Tuesday"
    /\ weeklyPlan[2].day = "Wednesday"
    /\ weeklyPlan[3].day = "Thursday"
    /\ weeklyPlan[4].day = "Friday"
    /\ weeklyPlan[5].day = "Saturday"
    /\ weeklyPlan[6].day = "Sunday"
    /\ \A k \in 0..6 :
          /\ DOMAIN weeklyPlan[k] = {"day", "type"}
          /\ weeklyPlan[k].type \in {"rest", "light", "moderate", "hard"}

\* Wednesday was set to hard and then copied to every day
C18_Witness ==
    /\ changes = 2
    /\ lastOp = Op("copyDaySettings", 2)
    /\ \A k \in 0..6 : weeklyPlan[k].type = "hard"
    /\ weeklyPlan[0].day = "Monday"
    /\ weeklyPlan[6].day = "Sunday"

----------------------------------------------------------------------------
(* C19 *)

PlanOps == {"copyDaySettings", "dayType", "selectedDayType"}

\* C19: copyDaySettings(i) and per-day activity changes modify only activity
\* types of weekly-plan entries: copyDaySettings(i) leaves entry i itself,
\* every day name, selectedDay, the profile inputs, the macro settings and
\* carbCycleLevel unchanged, so rmr, tdee, bodyComposition and macros are the
\* same before and after; conversely a change of carbCycleLevel leaves the
\* weekly plan and weeklyDeficit unchanged.
C19_PlanFrame ==
    [][ /\ lastOp'.name \in PlanOps =>
            /\ UNCHANGED <<height, weight, age, gender, activityLevel>>
            /\ UNCHANGED <<proteinPerKg, fatPerKg, carbCycleLevel, selectedDay>>
            /\ \A k \in DayIndex : weeklyPlan'[k].day = weeklyPlan[k].day
            /\ UNCHANGED <<rmr, tdee, bodyCompositionTdee, carbsPerKg, macros>>
        /\ lastOp'.name = "copyDaySettings" =>
            weeklyPlan'[lastOp'.arg] = weeklyPlan[lastOp'.arg]
        /\ lastOp'.name \in {"dayType", "selectedDayType"} =>
            \A k \in DayIndex \ {lastOp'.arg} : weeklyPlan'[k] = weeklyPlan[k]
        /\ lastOp'.name = "carbCycleLevel" =>
            UNCHANGED <<weeklyPlan, weeklyDeficit>>
      ]_vars

\* Thursday selected on the mobile view, then Sunday copied on the desktop
\* view: the selector and the results of the setup are still in place
C19_Witness ==
    /\ lastOp = Op("copyDaySettings", 6)
    /\ selectedDay = 3
    /\ \A k \in DayIndex : weeklyPlan[k].type = "rest"
    /\ DefaultProfile
    /\ tdee = 2286
    /\ macros.protein.grams = 154
    /\ carbCycleLevel = "moderate"

----------------------------------------------------------------------------
(* C20 *)

\* the entries of the weekly plan marked as today when the clock says today
MarkedToday(today) ==
    {k \in DayIndex : isCurrentDay(weeklyPlan[k].day, today)}

\* C20: isCurrentDay(dayName) is true exactly when dayName is the name of the
\* platform's current weekday (index 0 = Sunday ... 6 = Saturday); hence for
\* every possible current weekday exactly one of the 7 weekly-plan entries is
\* marked as today.
C20_IsCurrentDay ==
    \A today \in 0..6 :
        /\ \A name \in {"Sunday", "Monday", "Tuesday", "Wednesday", "Thursday",
                         "Friday", "Saturday", "Someday"} :
              isCurrentDay(name, today) <=>
                  \/ today = 0 /\ name = "Sunday"
                  \/ today = 1 /\ name = "Monday"
                  \/ today = 2 /\ name = "Tuesday"
                  \/ today = 3 /\ name = "Wednesday"
                  \/ today = 4 /\ name = "Thursday"
                  \/ today = 5 /\ name = "Friday"
                  \/ today = 6 /\ name = "Saturday"
        /\ Cardinality(MarkedToday(today)) = 1

\* on a Sunday, with Sunday picked in the day selector: the last entry of the
\* plan is the one marked, the first is not
C20_Witness ==
    /\ lastOp = Op("selectedDay", 6)
    /\ isCurrentDay(weeklyPlan[selectedDay].day, 0)
    /\ ~ isCurrentDay(weeklyPlan[0].day, 0)
    /\ MarkedToday(0) = {6}
    /\ MarkedToday(1) = {0}

----------------------------------------------------------------------------
(* C21 *)

\* C21: copyDaySettings is idempotent and absorbing: after copyDaySettings(i)
\* a further copyDaySettings(j), for any j in 0..6, leaves the weekly plan
\* unchanged, so a sequence of copyDaySettings calls not interleaved with
\* per-day edits has the same result as its first call alone.
C21_CopyAbsorbing ==
    [][ lastOp.name = "copyDaySettings" /\ lastOp'.name = "copyDaySettings"
            => weeklyPlan' = weeklyPlan ]_vars

\* Sunday copied after another copy: the plan is the one the first copy left,
\* uniform in a type taken from the plan the run started with
C21_Witness ==
    /\ changes = 2
    /\ lastOp = Op("copyDaySettings", 6)
    /\ \A k \in DayIndex : weeklyPlan[k].type = "light"

----------------------------------------------------------------------------
(* C22 *)

\* C22: immediately after copyDaySettings(i), weeklyDeficit =
\* 7 x (tdee - getDayMacros(t).calories), t being the type of entry i; in
\* particular weeklyDeficit is then a multiple of 7.
C22_DeficitAfterCopy ==
    lastOp.name = "copyDaySettings" =>
        /\ weeklyDeficit =
              7 * (tdee - getDayMacros(weeklyPlan[lastOp.arg].type, weight,
                                       proteinPerKg, fatPerKg).calories)
        /\ weeklyDeficit % 7 = 0

\* very-heavy activity, then Sunday's rest copied to the whole week
C22_Witness ==
    /\ lastOp = Op("copyDaySettings", 6)
    /\ activityLevel = "very-heavy"
    /\ weeklyPlan[6].type = "rest"
    /\ weeklyPlan[0].type = "rest"
    /\ weeklyDeficit > 7000
    /\ weeklyDeficit % 7 = 0

----------------------------------------------------------------------------
(* C23 *)

\* rest < light < moderate < hard
Rank(t) ==
    CASE t = "rest" -> 0 [] t = "light" -> 1 [] t = "moderate" -> 2
      [] t = "hard" -> 3

DayEdits == {"dayType", "selectedDayType"}

\* C23: for weight > 0, getDayMacros(type).carbs and .calories are
\* non-decreasing along rest < light < moderate < hard; therefore raising the
\* activity type of a single plan day never increases weeklyDeficit and
\* lowering it never decreases weeklyDeficit, all other inputs being equal.
C23_Monotone ==
    /\ [](weight > 0 =>
            \A t, u \in ActivityTypes :
                Rank(t) <= Rank(u) =>
                    /\ DayMacros(t).carbs <= DayMacros(u).carbs
                    /\ DayMacros(t).calories <= DayMacros(u).calories)
    /\ [][ lastOp'.name \in DayEdits /\ weight > 0 =>
              LET k == lastOp'.arg
              IN  /\ Rank(weeklyPlan'[k].type) > Rank(weeklyPlan[k].type)
                        => weeklyDeficit' <= weeklyDeficit
                  /\ Rank(weeklyPlan'[k].type) < Rank(weeklyPlan[k].type)
                        => weeklyDeficit' >= weeklyDeficit ]_vars

\* Sunday raised from rest to hard as the only edit: the deficit is below the
\* one of the plan of the setup
C23_Witness ==
    /\ changes = 1
    /\ lastOp = Op("dayType", 6)
    /\ weeklyPlan[6].type = "hard"
    /\ weight = 705
    /\ weeklyDeficit <
          WeeklyDeficit(tdee, InitialWeeklyPlan, weight, proteinPerKg, fatPerKg)

----------------------------------------------------------------------------
(* C24 *)

\* C24: the two macro computations agree: in every reachable state
\* getDayMacros(carbCycleLevel) returns protein, fat, carbs and calories equal
\* to macros.protein.grams, macros.fat.grams, macros.carbs.grams and
\* macros.totalCalories.
C24_MacrosAgree ==
    /\ DayMacros(carbCycleLevel).protein = macros.protein.grams
    /\ DayMacros(carbCycleLevel).fat = macros.fat.grams
    /\ DayMacros(carbCycleLevel).carbs = macros.carbs.grams
    /\ DayMacros(carbCycleLevel).calories = macros.totalCalories

\* 70 kg and the selector on rest: 77 g of carbohydrates both ways
C24_Witness ==
    /\ changes = 2
    /\ lastOp.name = "carbCycleLevel"
    /\ carbCycleLevel = "rest"
    /\ weight = 700
    /\ macros.carbs.grams = 77
    /\ DayMacros("rest").carbs = 77
    /\ DayMacros("rest").calories = macros.totalCalories

----------------------------------------------------------------------------
(* C25 *)

\* C25: whenever weight > 0 and proteinPerKg is within the slider range
\* 1.3..3.3, macros.protein.min <= macros.protein.grams <= macros.protein.max;
\* and for every carb-cycle level, macros.carbs.min <= macros.carbs.grams <=
\* macros.carbs.max.
C25_GramsWithinRange ==
    weight > 0 /\ 13 <= proteinPerKg /\ proteinPerKg <= 33 =>
        /\ macros.protein.min <= macros.protein.grams
        /\ macros.protein.grams <= macros.protein.max
        /\ macros.carbs.min <= macros.carbs.grams
        /\ macros.carbs.grams <= macros.carbs.max

\* the protein slider at its upper end on a rest day: grams at the maximum,
\* carbohydrates strictly inside their range
C25_Witness ==
    /\ lastOp.name = "proteinPerKg"
    /\ proteinPerKg = 33
    /\ carbCycleLevel = "rest"
    /\ macros.protein.min < macros.protein.grams
    /\ macros.protein.grams = macros.protein.max
    /\ macros.carbs.min = 0
    /\ macros.carbs.min < macros.carbs.grams
    /\ macros.carbs.grams < macros.carbs.max

----------------------------------------------------------------------------
(* C26 *)

\* the three percentages of a macros result are integers in [0, 100] whose
\* sum is 99, 100 or 101
PercentagesNearHundred(m) ==
    /\ \A p \in {m.protein.percentage, m.fat.percentage, m.carbs.percentage} :
          IsNum(p) /\ Val(p) \in 0..100
    /\ Val(m.protein.percentage) + Val(m.fat.percentage)
          + Val(m.carbs.percentage) \in {99, 100, 101}

\* C26: whenever weight > 0, all per-kg settings are >= 0 and totalCalories
\* > 0, the sum of the three independently rounded percentages differs from
\* 100 by at most 1 (it is 99, 100 or 101), and each percentage is an integer
\* in [0, 100]; for the carbohydrate value of the selected level and for
\* every position of a carbohydrate slider from 3 to 5 g/kg.
C26_PercentagesNearHundred ==
    weight > 0 /\ proteinPerKg >= 0 /\ fatPerKg >= 0 /\ carbsPerKg >= 0 =>
        /\ macros.totalCalories > 0 => PercentagesNearHundred(macros)
        /\ \A c \in CarbsSliderMin..CarbsSliderMax :
              LET m == Macros(weight, proteinPerKg, fatPerKg, c, carbCycleLevel)
              IN  m.totalCalories > 0 => PercentagesNearHundred(m)

\* fat slider moved to a position where the percentages add up to 101
C26_Witness ==
    /\ weight > 0
    /\ macros.totalCalories > 0
    /\ lastOp.name = "fatPerKg"
    /\ PercentagesNearHundred(macros)
    /\ PercentageSum = 101

----------------------------------------------------------------------------
(* C27 *)

\* C27: in every reachable state the displayed number of training days
\* (entries whose type is not rest) plus the displayed number of rest days is
\* 7; immediately after copyDaySettings(i) the pair (training days, rest days)
\* is (0, 7) if entry i is rest and (7, 0) otherwise.
C27_DayCounts ==
    /\ TrainingDays(weeklyPlan) + RestDays(weeklyPlan) = 7
    /\ lastOp.name = "copyDaySettings" =>
          <<TrainingDays(weeklyPlan), RestDays(weeklyPlan)>> =
              IF weeklyPlan[lastOp.arg].type = "rest" THEN <<0, 7>> ELSE <<7, 0>>

\* Sunday's rest copied to the whole week
C27_Witness ==
    /\ lastOp = Op("copyDaySettings", 6)
    /\ weeklyPlan[6].type = "rest"
    /\ TrainingDays(weeklyPlan) = 0
    /\ RestDays(weeklyPlan) = 7

====
